---- MODULE Spec2Model ----
(***************************************************************************)
(* A model of github.com/bww/go-alert (v1): the process registry (Init,    *)
(* Default, package-level Error / Errorf), Alerter construction (New),     *)
(* Alerter.Error / Errorf dispatch to the tracker and logger sinks, the    *)
(* option fold that builds a Context, and the event builder that unwinds   *)
(* an error chain into the exception list.                                 *)
(***************************************************************************)
EXTENDS Integers, Sequences, FiniteSets, TLC

VARIABLES
    shared,      \* var shared *Alerter: index into alerters, Nil when unset
    lock,        \* var lock sync.Mutex: the thread holding it, Nil when free
    alerters,    \* the Alerter structs allocated so far, in allocation order
    hubs,        \* sentry hubs: hubs[Global] is sentry.CurrentHub(), hubs[t] thread t's clone
    tracker,     \* events handed to hub.CaptureEvent, in submission order
    logged,      \* lines handed to (*slog.Logger).Error, in emission order
    pc,          \* per thread: the position in the call it is executing
    call,        \* per thread: the arguments and locals of that call
    ncalls,      \* the calls started so far, over all threads
    history,     \* per thread: its finished calls, with how each ended
    chain,       \* event-builder check: the error chain given to eventFromError
    built,       \* event-builder check: what eventFromError produced
    optsIn,      \* option-fold check: the option sequence
    cxtOut       \* option-fold check: the folded Context

vars == <<shared, lock, alerters, hubs, tracker, logged, pc, call, ncalls,
          history, chain, built, optsIn, cxtOut>>

regVars == <<shared, lock, alerters, hubs, tracker, logged, pc, call, ncalls, history>>
evVars == <<chain, built>>
optVars == <<optsIn, cxtOut>>
idleVars == <<evVars, optVars>>

Nil == 0

(***************************************************************************)
(* Bounds of the model.                                                    *)
(***************************************************************************)
MaxChain == 4        \* longest error chain explored by the event-builder check
MaxOpts == 3         \* longest option sequence explored by the option-fold check
MaxCalls == 3        \* calls made in the concurrent model, over all threads
NumThreads == 2      \* goroutines calling into the package
NumClients == 2      \* distinct *sentry.Client values

\* const maxErrorDepth = 3
maxErrorDepth == 3

Min(a, b) == IF a < b THEN a ELSE b

(***************************************************************************)
(* Errors.  An error value is a position in a chain; each level of the     *)
(* chain is the set of optional interfaces its concrete type implements.   *)
(* The wrapped error of level i is level i+1; the innermost level wraps    *)
(* nothing, and its Unwrap / Cause (when it has them) return nil.          *)
(***************************************************************************)
Caps == {"Title", "Frames", "Unwrap", "Cause"}

HasCap(c, e, cap) == cap \in c[e]

\* prev.Unwrap() / prev.Cause(): the next level, or nil at the innermost one
Wrapped(c, e) == IF e < Len(c) THEN e + 1 ELSE Nil

\* err.Error()
ErrorText(c, e) == <<"message of", e>>

\* reflect.TypeOf(err).String()
TypeName(c, e) == <<"type of", e>>

\* c.Title()
TitleOf(c, e) == <<"title of", e>>

\* c.Frames(): two frames per error, innermost call first
FramesOf(c, e) ==
    << [Line |-> 10 * e + 1, File |-> "a.go", Path |-> "/src/a.go", Name |-> "pkg.inner"],
       [Line |-> 10 * e + 2, File |-> "b.go", Path |-> "/src/b.go", Name |-> "pkg.outer"] >>

\* convertStacktrace: conv[len(frames)-i-1] = the converted frame i
convertStacktrace(frames) ==
    [ from |-> "Frames",
      Frames |-> [ j \in 1..Len(frames) |->
                     LET e == frames[Len(frames) - j + 1]
                     IN [Lineno |-> e.Line, Filename |-> e.File,
                         AbsPath |-> e.Path, Function |-> e.Name] ] ]

\* sentry.ExtractStacktrace(err): the backend's own extraction, opaque here
ExtractStacktrace(c, e) ==
    [ from |-> "ExtractStacktrace",
      Frames |-> << [Lineno |-> 10 * e, Filename |-> "extracted", AbsPath |-> "extracted",
                     Function |-> "extracted"] >> ]

\* maybeUnwrap
maybeUnwrap(c, e) ==
    IF HasCap(c, e, "Unwrap") THEN Wrapped(c, e) ELSE e

\* extractStacktrace: <<error, stack>>
extractStacktrace(c, e) ==
    IF HasCap(c, e, "Frames")
    THEN <<maybeUnwrap(c, e), convertStacktrace(FramesOf(c, e))>>
    ELSE <<e, ExtractStacktrace(c, e)>>

\* the type switch at the end of the loop body
NextErr(c, e) ==
    IF HasCap(c, e, "Unwrap") THEN Wrapped(c, e)
    ELSE IF HasCap(c, e, "Cause") THEN Wrapped(c, e)
    ELSE Nil

\* reverse: swaps a[i] and a[len(a)-1-i] for i below len(a)/2
reverse(a) == [ j \in 1..Len(a) |-> a[Len(a) - j + 1] ]

RECURSIVE unwind(_, _, _, _)
\* the loop of eventFromError; err.Error() on a nil error is a nil dereference
unwind(c, err, i, acc) ==
    IF ~(i < maxErrorDepth /\ err # Nil)
    THEN [panicked |-> FALSE, Exception |-> acc]
    ELSE LET p == extractStacktrace(c, err)
             e == p[1]
         IN IF e = Nil
            THEN [panicked |-> TRUE, Exception |-> acc]
            ELSE unwind(c, NextErr(c, e), i + 1,
                        Append(acc, [Value |-> ErrorText(c, e),
                                     Type |-> TypeName(c, e),
                                     Stacktrace |-> p[2]]))

NoTitle == <<"title of", Nil>>

\* Alerter.eventFromError(err, lvl, extra), err being the outermost level of c
eventFromError(c, lvl, extra) ==
    LET u == unwind(c, 1, 0, <<>>)
    IN [ panicked |-> u.panicked,
         Level |-> lvl,
         Extra |-> extra,
         Message |-> IF HasCap(c, 1, "Title") THEN TitleOf(c, 1) ELSE NoTitle,
         Exception |-> reverse(u.Exception) ]

(***************************************************************************)
(* Options and the Context they build (option.go).  An Option is a closure *)
(* over its argument; here it is the pair of its constructor and argument. *)
(* A map argument is nil, or a map from keys to values.                    *)
(***************************************************************************)
NumRequests == 2     \* distinct *router.Request values

EmptyKV == [k \in {} |-> 0]
NilMap == [nil |-> TRUE, kv |-> EmptyKV]
MapOf(kv) == [nil |-> FALSE, kv |-> kv]
MapLen(m) == Cardinality(DOMAIN m.kv)

\* type Context struct { Request; Tags; Extra }, zero-valued
ZeroContext == [Request |-> Nil, Tags |-> NilMap, Extra |-> NilMap]

WithRequest(req) == [kind |-> "WithRequest", req |-> req, m |-> NilMap]
WithTags(tags) == [kind |-> "WithTags", req |-> Nil, m |-> tags]
WithExtra(extra) == [kind |-> "WithExtra", req |-> Nil, m |-> extra]

\* a bug a struct-copying option could have: setting Tags also resets Extra
ApplyOptionClobber(c, o) ==
    CASE o.kind = "WithRequest" -> [c EXCEPT !.Request = o.req]
      [] o.kind = "WithTags" -> [c EXCEPT !.Tags = o.m, !.Extra = NilMap]
      [] o.kind = "WithExtra" -> [c EXCEPT !.Extra = o.m]

\* o(cxt): the closure bodies of WithRequest, WithTags and WithExtra
ApplyOption(c, o) ==
    CASE o.kind = "WithRequest" -> [c EXCEPT !.Request = o.req]
      [] o.kind = "WithTags" -> [c EXCEPT !.Tags = o.m]
      [] o.kind = "WithExtra" -> [c EXCEPT !.Extra = o.m]

RECURSIVE Fold(_, _)
\* for _, o := range opts { cxt = o(cxt) }
Fold(cxt, opts) ==
    IF opts = <<>> THEN cxt ELSE Fold(ApplyOption(cxt, Head(opts)), Tail(opts))

Compose(opts) == Fold(ZeroContext, opts)

TagArgs ==
    { NilMap, MapOf(EmptyKV), MapOf([k \in {"env"} |-> 1]), MapOf([k \in {"env"} |-> 2]),
      MapOf([k \in {"env", "n"} |-> IF k = "env" THEN 1 ELSE 3]) }

ExtraArgs ==
    { NilMap, MapOf(EmptyKV), MapOf([k \in {"job"} |-> 7]), MapOf([k \in {"job"} |-> 8]) }

Options ==
    { WithRequest(r) : r \in 0..NumRequests } \cup { WithTags(m) : m \in TagArgs }
        \cup { WithExtra(m) : m \in ExtraArgs }

OptionSeqs == UNION { [1..n -> Options] : n \in 0..MaxOpts }

(***************************************************************************)
(* The option-fold check: the loop of Alerter.Error that folds opts, one   *)
(* iteration per step.                                                     *)
(***************************************************************************)
OptInit ==
    /\ optsIn \in OptionSeqs
    /\ cxtOut = [i |-> 0, cxt |-> ZeroContext]

OptStep ==
    /\ cxtOut.i < Len(optsIn)
    /\ cxtOut' = [i |-> cxtOut.i + 1, cxt |-> ApplyOption(cxtOut.cxt, optsIn[cxtOut.i + 1])]
    /\ UNCHANGED optsIn

(***************************************************************************)
(* The event-builder check: eventFromError applied to every chain.         *)
(***************************************************************************)
\* levels other than the innermost wrap something, so expose Unwrap or Cause;
\* Title is probed on the outermost error only
ChainsOfLen(n) ==
    { c \in [1..n -> SUBSET Caps] :
        /\ \A i \in 1..n : i < n => (c[i] \cap {"Unwrap", "Cause"}) # {}
        /\ \A i \in 2..n : "Title" \notin c[i] }

Chains == UNION { ChainsOfLen(n) : n \in 1..MaxChain }

NotBuilt == [done |-> FALSE, panicked |-> FALSE, Level |-> "", Extra |-> NilMap,
             Message |-> NoTitle, Exception |-> <<>>]

EvInit ==
    /\ chain \in Chains
    /\ built = NotBuilt

EvBuild ==
    /\ ~built.done
    /\ LET ev == eventFromError(chain, "error", NilMap)
       IN built' = [done |-> TRUE, panicked |-> ev.panicked, Level |-> ev.Level,
                    Extra |-> ev.Extra, Message |-> ev.Message, Exception |-> ev.Exception]
    /\ UNCHANGED chain

(***************************************************************************)
(* The concurrent model: threads calling the package's entry points.       *)
(***************************************************************************)
Threads == 1..NumThreads
Global == 0          \* hubs[Global] is sentry.CurrentHub()
NoHub == -1          \* var h *sentry.Hub, nil

\* type Config struct; Channel is carried and never read
Conf(client, logger, component, hostname, verbose) ==
    [Sentry |-> client, Logger |-> logger, Channel |-> "chan", Component |-> component,
     Hostname |-> hostname, Verbose |-> verbose]

ZeroConfig == Conf(Nil, Nil, "", "", FALSE)

\* the configurations Alerters are constructed from: each client with its own
\* static labels (odd clients verbose, with a logger and a component, even
\* ones with none of the three), and a logger without a client, verbose and not
Configs ==
    { Conf(k, k % 2, IF k % 2 = 1 THEN <<"svc1", "svc2", "svc3">>[k] ELSE "",
           <<"host1", "host2", "host3">>[k], k % 2 = 1) : k \in 1..NumClients }
      \cup { Conf(Nil, 1, "svc1", "", v) : v \in BOOLEAN }

\* a *slog.Logger: the configured logger and the attributes added by With
NoLogger == [base |-> Nil, attrs |-> <<>>]
LogWith(l, k, v) == [l EXCEPT !.attrs = Append(@, [k |-> k, s |-> v, n |-> 0])]
LogWithNum(l, k, v) == [l EXCEPT !.attrs = Append(@, [k |-> k, s |-> "", n |-> v])]

RECURSIVE LogWithAll(_, _)
\* for k, v := range m { log = log.With(k, v) }; Go leaves the order open and
\* nothing below depends on it
LogWithAll(l, kv) ==
    IF DOMAIN kv = {} THEN l
    ELSE LET k == CHOOSE x \in DOMAIN kv : TRUE
         IN LogWithAll(LogWithNum(l, k, kv[k]), [x \in DOMAIN kv \ {k} |-> kv[x]])

\* fmt.Sprint(v) for the integer tag values of the model
Sprint(v) == <<"0", "1", "2", "3", "4", "5", "6", "7", "8", "9">>[v + 1]

\* a sentry scope as this package uses it
EmptyScope == [tags |-> [k \in {} |-> ""], user |-> "", request |-> Nil]
EmptyHub == [client |-> Nil, scope |-> EmptyScope]

\* scope.SetTag(k, v)
SetTag(sc, k, v) ==
    [sc EXCEPT !.tags = [x \in DOMAIN sc.tags \cup {k} |-> IF x = k THEN v ELSE sc.tags[x]]]

\* for k, v := range tags { s.SetTag(k, fmt.Sprint(v)) }
SetTags(sc, kv) ==
    [sc EXCEPT !.tags = [x \in DOMAIN sc.tags \cup DOMAIN kv |->
                            IF x \in DOMAIN kv THEN Sprint(kv[x]) ELSE sc.tags[x]]]

\* the fields of a *router.Request this package reads
ReqMethod(r) == <<"GET", "POST", "PUT">>[r]
ReqURL(r) == <<"/x", "/y", "/z">>[r]
OriginAddr(r) == <<"1.2.3.4", "5.6.7.8", "9.9.9.9">>[r]

\* fmt.Sprintf("%s %s", req.Method, req.URL.String())
RequestLine(r) == ReqMethod(r) \o " " \o ReqURL(r)

\* fmt.Errorf(f, args...): wrapping w with %w gives an error whose Unwrap
\* returns w; without %w the error wraps nothing
fmtErrorf(w) == IF w = <<>> THEN << {} >> ELSE << {"Unwrap"} >> \o w

\* the reports the concurrent model makes: an error, the reference string
\* errutil.Refstr derives from it, and the options given with it
Report(c, ref, opts) == [chain |-> c, ref |-> ref, opts |-> opts]

ErrInputs ==
    { Report(<< {"Title", "Cause"}, {} >>, "ref1",
             << WithTags(MapOf([k \in {"env"} |-> 1])) >>),
      Report(<< {} >>, "",
             << WithRequest(1), WithExtra(MapOf([k \in {"job"} |-> 7])),
                WithTags(MapOf([k \in {"env", "n"} |-> IF k = "env" THEN 2 ELSE 3])) >>),
      Report(<< {"Frames", "Unwrap"} >>, "", << WithRequest(2) >>) }

\* the errors given to Errorf with %w, <<>> standing for a format without %w
FmtArgs == { <<>>, << {"Frames", "Unwrap"} >> }

\* type Alerter struct
NoAlerter ==
    [sentry |-> Nil, log |-> NoLogger, channel |-> "", component |-> "", hostname |-> "",
     verbose |-> FALSE]

\* the locals of a call; rcv and snap record, for the properties below, the
\* receiver's fields and the current hub's scope as the call found them
NoCall ==
    [ op |-> "none", n |-> 0, conf |-> ZeroConfig, a |-> Nil, err |-> << {} >>,
      opts |-> <<>>, ref |-> "", viaPkg |-> FALSE, h |-> NoHub, log |-> NoLogger,
      cxt |-> ZeroContext, ret |-> Nil, panic |-> "", args |-> <<>>,
      rcv |-> NoAlerter, snap |-> EmptyScope ]

RegInit ==
    /\ shared = Nil
    /\ lock = Nil
    /\ alerters = <<>>
    /\ hubs = [x \in {Global} \cup Threads |-> EmptyHub]
    /\ tracker = [t \in Threads |-> <<>>]
    /\ logged = [t \in Threads |-> <<>>]
    /\ pc = [t \in Threads |-> "idle"]
    /\ call = [t \in Threads |-> NoCall]
    /\ ncalls = 0
    /\ history = [t \in Threads |-> <<>>]

\* goroutines are interchangeable, so they are numbered in the order of their
\* first call: t makes its first call once t - 1 has made one
MayCall(t) ==
    /\ pc[t] = "idle"
    /\ ncalls < MaxCalls
    /\ IF t = 1 \/ history[t] # <<>> THEN TRUE
       ELSE history[t - 1] # <<>> \/ pc[t - 1] # "idle"

\* a call ends, normally or by a panic that leaves the call; its hub clone is
\* garbage from here on
EndCall(t, c) ==
    /\ history' = [history EXCEPT ![t] =
                      Append(@, [call |-> c,
                                 outcome |-> IF c.panic = "" THEN "returned" ELSE "panicked",
                                 sharedAfter |-> shared', lockAfter |-> lock'])]
    /\ call' = [call EXCEPT ![t] = NoCall]
    /\ pc' = [pc EXCEPT ![t] = "idle"]
    /\ hubs' = [hubs EXCEPT ![t] = EmptyHub]

\* the number a thread's next call gets
NextCall(t) == Len(history[t]) + 1

(***************************************************************************)
(* New(conf).  A call's first statement executes as the call starts.       *)
(***************************************************************************)
AfterBind(conf) ==
    IF conf.Component # "" THEN "NewComponent"
    ELSE IF conf.Hostname # "" THEN "NewHost" ELSE "NewReturn"

AfterComponent(conf) ==
    IF conf.Hostname # "" THEN "NewHost" ELSE "NewReturn"

\* the logger New stores: conf.Logger with the static labels added
NewLogger(conf) ==
    IF conf.Logger = Nil THEN NoLogger
    ELSE LET l0 == [base |-> conf.Logger, attrs |-> <<>>]
             l1 == IF conf.Component # "" THEN LogWith(l0, "component", conf.Component) ELSE l0
         IN IF conf.Hostname # "" THEN LogWith(l1, "host", conf.Hostname) ELSE l1

\* &Alerter{...}
NewAlerter(conf) ==
    [sentry |-> conf.Sentry, log |-> NewLogger(conf), channel |-> conf.Channel,
     component |-> conf.Component, hostname |-> conf.Hostname, verbose |-> conf.Verbose]

\* the rest of New: the logger, the Alerter, the return; in Init the result
\* is assigned to shared (the error New returns is always nil)
Alloc(t, c) ==
    /\ alerters' = Append(alerters, NewAlerter(c.conf))
    /\ IF c.op = "Init"
       THEN /\ shared' = Len(alerters) + 1
            /\ call' = [call EXCEPT ![t] = [c EXCEPT !.ret = Len(alerters) + 1]]
            /\ pc' = [pc EXCEPT ![t] = "Unlock"]
            /\ UNCHANGED <<hubs, history>>
       ELSE /\ UNCHANGED shared
            /\ EndCall(t, [c EXCEPT !.ret = Len(alerters) + 1])

\* New from its first statement: with a client, hub := sentry.CurrentHub();
\* hub.BindClient(conf.Sentry); without one, the rest of New at once
Construct(t, c) ==
    IF c.conf.Sentry # Nil
    THEN /\ hubs' = [hubs EXCEPT ![Global].client = c.conf.Sentry]
         /\ call' = [call EXCEPT ![t] = c]
         /\ pc' = [pc EXCEPT ![t] = AfterBind(c.conf)]
         /\ UNCHANGED <<alerters, shared, history>>
    ELSE Alloc(t, c)

StartNew(t, conf) ==
    /\ MayCall(t)
    /\ ncalls' = ncalls + 1
    /\ UNCHANGED <<idleVars, lock, tracker, logged>>
    /\ Construct(t, [NoCall EXCEPT !.op = "New", !.n = NextCall(t), !.conf = conf])

\* scope.SetTag("component", conf.Component)
NewComponent(t) ==
    /\ pc[t] = "NewComponent"
    /\ hubs' = [hubs EXCEPT ![Global].scope = SetTag(@, "component", call[t].conf.Component)]
    /\ pc' = [pc EXCEPT ![t] = AfterComponent(call[t].conf)]
    /\ UNCHANGED <<idleVars, shared, lock, alerters, tracker, logged, call, ncalls, history>>

\* scope.SetTag("host", conf.Hostname)
NewHost(t) ==
    /\ pc[t] = "NewHost"
    /\ hubs' = [hubs EXCEPT ![Global].scope = SetTag(@, "host", call[t].conf.Hostname)]
    /\ pc' = [pc EXCEPT ![t] = "NewReturn"]
    /\ UNCHANGED <<idleVars, shared, lock, alerters, tracker, logged, call, ncalls, history>>

NewReturn(t) ==
    /\ pc[t] = "NewReturn"
    /\ UNCHANGED <<idleVars, lock, tracker, logged, ncalls>>
    /\ Alloc(t, call[t])

(***************************************************************************)
(* Alerter.Error and Alerter.Errorf.                                       *)
(***************************************************************************)
\* a call that mutates the current hub itself
CallHubNoClone(a, t) == IF a.sentry # Nil THEN Global ELSE NoHub

\* a tracker that is used only when verbose
CallHubIfVerbose(a, t) == IF a.sentry # Nil /\ a.verbose THEN t ELSE NoHub

\* if a.sentry != nil { h = sentry.CurrentHub().Clone() }: the call's own hub
CallHub(a, t) == IF a.sentry # Nil THEN t ELSE NoHub

\* the per-call logger: a.log.With("alert", "error"), and With("ref", ref)
CallLogger(a, ref) ==
    IF a.verbose /\ a.log.base # Nil
    THEN LET l == LogWith(a.log, "alert", "error")
         IN IF ref # "" THEN LogWith(l, "ref", ref) ELSE l
    ELSE NoLogger

\* what the request, the tags and the ref make of the scope of the call's hub
ScopeFor(sc, cxt, ref) ==
    LET s1 == IF cxt.Request # Nil
              THEN [sc EXCEPT !.request = cxt.Request, !.user = OriginAddr(cxt.Request)]
              ELSE sc
        s2 == IF MapLen(cxt.Tags) > 0 THEN SetTags(s1, cxt.Tags.kv) ELSE s1
    IN IF MapLen(cxt.Tags) > 0 /\ ref # "" THEN SetTag(s2, "ref", ref) ELSE s2

\* what the request, the tags and the extra data add to the call's logger
LoggerFor(l, cxt) ==
    LET l1 == IF cxt.Request # Nil
              THEN LogWith(LogWith(l, "alert", "error"), "request", RequestLine(cxt.Request))
              ELSE l
        l2 == IF MapLen(cxt.Tags) > 0 THEN LogWithAll(l1, cxt.Tags.kv) ELSE l1
    IN IF MapLen(cxt.Extra) > 0 THEN LogWithAll(l2, cxt.Extra.kv) ELSE l2

\* Alerter.Error down to the end of the extra block: the hub clone, the
\* logger, the Context, and what the Context adds to the clone's scope and to
\* the logger.  The clone is the one read of shared state; the rest is local.
ErrBegin(t, c) ==
    LET a == alerters[c.a]
        h == CallHub(a, t)
        l == CallLogger(a, c.ref)
        cxt == Compose(c.opts)
        cloned == IF h = t THEN [hubs EXCEPT ![t] = hubs[Global]] ELSE hubs
    IN /\ hubs' = IF h # NoHub
                  THEN [cloned EXCEPT ![h].scope = ScopeFor(@, cxt, c.ref)]
                  ELSE hubs
       /\ call' = [call EXCEPT ![t] =
                     [c EXCEPT !.h = h,
                               !.log = IF l.base # Nil THEN LoggerFor(l, cxt) ELSE l,
                               !.cxt = cxt,
                               !.rcv = a,
                               !.snap = hubs[Global].scope]]
       /\ pc' = [pc EXCEPT ![t] = "ErrReport"]

StartError(t, a, e) ==
    /\ MayCall(t)
    /\ ncalls' = ncalls + 1
    /\ UNCHANGED <<idleVars, shared, lock, alerters, tracker, logged, history>>
    /\ ErrBegin(t, [NoCall EXCEPT !.op = "Error", !.n = NextCall(t), !.a = a,
                                  !.err = e.chain, !.ref = e.ref, !.opts = e.opts])

\* a.Error(fmt.Errorf(f, args...))
StartErrorf(t, a, f) ==
    /\ MayCall(t)
    /\ ncalls' = ncalls + 1
    /\ UNCHANGED <<idleVars, shared, lock, alerters, tracker, logged, history>>
    /\ ErrBegin(t, [NoCall EXCEPT !.op = "Errorf", !.n = NextCall(t), !.a = a,
                                  !.args = f, !.err = fmtErrorf(f)])

\* hub.CaptureEvent(event): the hub's client receives the event with the
\* hub's scope applied; a hub without a client drops it
Submitted(t, hub, ev) ==
    IF hub.client = Nil THEN tracker[t]
    ELSE Append(tracker[t],
                [n |-> call[t].n, client |-> hub.client, tags |-> hub.scope.tags,
                 user |-> hub.scope.user, request |-> hub.scope.request,
                 Level |-> ev.Level, Extra |-> ev.Extra, Message |-> ev.Message,
                 Exception |-> ev.Exception])

\* log.Error(err.Error()) when log != nil && a.verbose
Emitted(t, c) ==
    IF c.log.base # Nil /\ alerters[c.a].verbose
    THEN Append(logged[t], [n |-> c.n, msg |-> ErrorText(c.err, 1), logger |-> c.log])
    ELSE logged[t]

\* the end of Alerter.Error: captureError when h != nil, then the log line;
\* a panic in eventFromError leaves the call before either sink is reached
ErrReport(t) ==
    /\ pc[t] = "ErrReport"
    /\ UNCHANGED <<idleVars, shared, lock, alerters, ncalls>>
    /\ LET c == call[t]
           ev == eventFromError(c.err, "error", c.cxt.Extra)
           failed == c.h # NoHub /\ ev.panicked
           after == IF failed THEN [c EXCEPT !.panic = "nil pointer dereference"] ELSE c
       IN /\ tracker' = IF c.h # NoHub /\ ~failed
                        THEN [tracker EXCEPT ![t] = Submitted(t, hubs[c.h], ev)]
                        ELSE tracker
          /\ logged' = IF failed THEN logged ELSE [logged EXCEPT ![t] = Emitted(t, c)]
          /\ IF c.viaPkg
             THEN /\ call' = [call EXCEPT ![t] = after]
                  /\ pc' = [pc EXCEPT ![t] = "Unlock"]
                  /\ UNCHANGED <<hubs, history>>
             ELSE EndCall(t, after)

(***************************************************************************)
(* Process registry: Init, Default, package-level Error and Errorf.  A     *)
(* call waits at "Lock" until lock.Lock() returns.                         *)
(***************************************************************************)
Wait(t, c) ==
    /\ MayCall(t)
    /\ ncalls' = ncalls + 1
    /\ call' = [call EXCEPT ![t] = [c EXCEPT !.n = NextCall(t)]]
    /\ pc' = [pc EXCEPT ![t] = "Lock"]
    /\ UNCHANGED <<idleVars, shared, lock, alerters, hubs, tracker, logged, history>>

StartInit(t, conf) ==
    Wait(t, [NoCall EXCEPT !.op = "Init", !.conf = conf])

StartPkgError(t, e) ==
    Wait(t, [NoCall EXCEPT !.op = "Error", !.viaPkg = TRUE, !.err = e.chain,
                           !.ref = e.ref, !.opts = e.opts])

StartPkgErrorf(t, f) ==
    Wait(t, [NoCall EXCEPT !.op = "Errorf", !.viaPkg = TRUE, !.args = f])

\* a mutex that lets a second thread in
CanLockAlways(t) == TRUE

\* lock.Lock() returns once no thread holds the mutex
CanLock(t) == lock = Nil

\* an Init that installs over an Alerter already there
InitEnterNoGuard(t) ==
    /\ pc[t] = "Lock" /\ call[t].op = "Init"
    /\ CanLock(t)
    /\ lock' = t
    /\ UNCHANGED <<idleVars, tracker, logged, ncalls>>
    /\ Construct(t, call[t])

\* Init: lock.Lock(); if shared != nil { panic(ErrReinitialized) }; New(conf)
InitEnter(t) ==
    /\ pc[t] = "Lock" /\ call[t].op = "Init"
    /\ CanLock(t)
    /\ lock' = t
    /\ UNCHANGED <<idleVars, tracker, logged, ncalls>>
    /\ IF shared # Nil
       THEN /\ call' = [call EXCEPT ![t].panic = "ErrReinitialized"]
            /\ pc' = [pc EXCEPT ![t] = "Unlock"]
            /\ UNCHANGED <<shared, alerters, hubs, history>>
       ELSE Construct(t, call[t])

\* a forwarder that returns on a nil shared without releasing the mutex
PkgEnterKeepsLock(t) ==
    /\ pc[t] = "Lock" /\ call[t].op # "Init"
    /\ CanLock(t)
    /\ lock' = t
    /\ UNCHANGED <<idleVars, shared, alerters, tracker, logged, ncalls>>
    /\ IF shared # Nil
       THEN /\ ErrBegin(t, [call[t] EXCEPT !.a = shared,
                                           !.err = IF call[t].op = "Errorf"
                                                   THEN fmtErrorf(call[t].args) ELSE @])
            /\ UNCHANGED history
       ELSE EndCall(t, call[t])

\* Error, Errorf: lock.Lock(); if shared != nil { shared.Error(err, opts...) },
\* Errorf's receiver formatting the error before it reports it
PkgEnter(t) ==
    /\ pc[t] = "Lock" /\ call[t].op # "Init"
    /\ CanLock(t)
    /\ lock' = t
    /\ UNCHANGED <<idleVars, shared, alerters, tracker, logged, ncalls, history>>
    /\ IF shared # Nil
       THEN ErrBegin(t, [call[t] EXCEPT !.a = shared,
                                        !.err = IF call[t].op = "Errorf"
                                                THEN fmtErrorf(call[t].args) ELSE @])
       ELSE /\ pc' = [pc EXCEPT ![t] = "Unlock"]
            /\ UNCHANGED <<call, hubs>>

\* defer lock.Unlock(): runs when the call returns and when it panics
Unlock(t) ==
    /\ pc[t] = "Unlock"
    /\ lock' = Nil
    /\ UNCHANGED <<idleVars, shared, alerters, tracker, logged, ncalls>>
    /\ EndCall(t, call[t])

\* func Default() *Alerter { return shared }
Default(t) ==
    /\ MayCall(t)
    /\ ncalls' = ncalls + 1
    /\ UNCHANGED <<idleVars, shared, lock, alerters, tracker, logged>>
    /\ EndCall(t, [NoCall EXCEPT !.op = "Default", !.n = NextCall(t), !.ret = shared])

(***************************************************************************)
(* Specifications.                                                         *)
(***************************************************************************)
IdleEv == chain = << {} >> /\ built = NotBuilt
IdleOpt == optsIn = <<>> /\ cxtOut = [i |-> 0, cxt |-> ZeroContext]

Init == RegInit /\ IdleEv /\ IdleOpt

\* the statements a thread inside a call executes next
Step(t) ==
    \/ InitEnter(t)
    \/ PkgEnter(t)
    \/ Unlock(t)
    \/ NewComponent(t)
    \/ NewHost(t)
    \/ NewReturn(t)
    \/ ErrReport(t)

\* what the registry is exercised with: a Config with a tracker and one with
\* a logger only, a report that goes through and one that panics inside
\* Alerter.Error, and a format without %w
RegConfigs == { c \in Configs : c.Sentry = 1 \/ (c.Sentry = Nil /\ c.Verbose) }
RegReports == { e \in ErrInputs : Len(e.opts) = 1 }

\* the registry: Init, Default and the package-level forwarders
RegNext ==
    \/ \E t \in Threads, conf \in RegConfigs : StartInit(t, conf)
    \/ \E t \in Threads : Default(t)
    \/ \E t \in Threads, e \in RegReports : StartPkgError(t, e)
    \/ \E t \in Threads : StartPkgErrorf(t, <<>>)
    \/ \E t \in Threads : InitEnter(t)
    \/ \E t \in Threads : PkgEnter(t)
    \/ \E t \in Threads : Unlock(t)
    \/ \E t \in Threads : NewComponent(t)
    \/ \E t \in Threads : NewHost(t)
    \/ \E t \in Threads : NewReturn(t)
    \/ \E t \in Threads : ErrReport(t)

RegSpec == Init /\ [][RegNext]_vars

\* the Go scheduler runs every goroutine that can take a step
RegFairSpec == RegSpec /\ \A t \in Threads : WF_vars(Step(t))

\* Alerters used directly: New, Alerter.Error and Alerter.Errorf
Next ==
    \/ \E t \in Threads, conf \in Configs : StartNew(t, conf)
    \/ \E t \in Threads, a \in 1..Len(alerters), e \in ErrInputs : StartError(t, a, e)
    \/ \E t \in Threads, a \in 1..Len(alerters), f \in FmtArgs : StartErrorf(t, a, f)
    \/ \E t \in Threads : NewComponent(t)
    \/ \E t \in Threads : NewHost(t)
    \/ \E t \in Threads : NewReturn(t)
    \/ \E t \in Threads : ErrReport(t)

Spec == Init /\ [][Next]_vars

EvNext == EvBuild /\ UNCHANGED <<regVars, optVars>>
EvStart == RegInit /\ EvInit /\ IdleOpt
EvSpec == EvStart /\ [][EvNext]_vars

OptNext == OptStep /\ UNCHANGED <<regVars, evVars>>
OptStart == RegInit /\ IdleEv /\ OptInit
OptSpec == OptStart /\ [][OptNext]_vars

(***************************************************************************)
(* Properties.                                                             *)
(***************************************************************************)
\* the finished calls, as <<thread, position in its history>>
Finished == { <<t, i>> \in Threads \X (1..MaxCalls) : i <= Len(history[t]) }
Rec(f) == history[f[1]][f[2]]

\* call n of thread t: in flight, or finished
CallOf(t, n) == IF pc[t] # "idle" /\ call[t].n = n THEN call[t] ELSE history[t][n].call

\* how many entries of the sequence q come from call n
CountOf(q, n) == Cardinality({ i \in DOMAIN q : q[i].n = n })

IsReport(c) == c.op \in {"Error", "Errorf"}

(* C1: for every error chain, the exception list of the event has exactly   *)
(* min(chain depth, maxErrorDepth) entries.                                 *)
C1_ExceptionCount ==
    (built.done /\ ~built.panicked) =>
        Len(built.Exception) = Min(Len(chain), maxErrorDepth)

(* C8: read from last to first, the exception list describes the chain's    *)
(* errors from the outermost inward, none skipped, and each entry's         *)
(* message, type and stack all come from that one error.                    *)
C8_EntriesFollowChain ==
    (built.done /\ ~built.panicked) =>
        \A k \in 1..Len(built.Exception) :
            LET x == built.Exception[Len(built.Exception) - k + 1]
            IN /\ x.Value = ErrorText(chain, k)
               /\ x.Type = TypeName(chain, k)
               /\ x.Stacktrace = IF HasCap(chain, k, "Frames")
                                 THEN convertStacktrace(FramesOf(chain, k))
                                 ELSE ExtractStacktrace(chain, k)

(* C3: Alerter.Error and Alerter.Errorf return normally for every error,    *)
(* option sequence and sink configuration: no call ends in a panic.         *)
C3_ReportsNeverPanic ==
    \A f \in Finished : IsReport(Rec(f).call) => Rec(f).outcome = "returned"

(* C10: every event of an Alerter that has a tracker goes through the       *)
(* client of that Alerter's own Config and carries that Config's component  *)
(* and host labels, whatever Alerters were constructed later.               *)
C10_EventsUseOwnConfig ==
    \A t \in Threads : \A i \in DOMAIN tracker[t] :
        LET ev == tracker[t][i]
            a == CallOf(t, ev.n).rcv
        IN /\ ev.client = a.sentry
           /\ a.component # "" =>
                ("component" \in DOMAIN ev.tags /\ ev.tags["component"] = a.component)
           /\ a.hostname # "" =>
                ("host" \in DOMAIN ev.tags /\ ev.tags["host"] = a.hostname)

Inits == { f \in Finished : Rec(f).call.op = "Init" }

(* C2: of the Init calls exactly one returns normally, and it installs the  *)
(* process-wide Alerter; every other Init panics with ErrReinitialized; and *)
(* once set, the process-wide Alerter is what every later call end finds.   *)
C2_InitOnce ==
    /\ Cardinality({ f \in Inits : Rec(f).outcome = "returned" }) <= 1
    /\ \A f \in Inits :
          /\ Rec(f).outcome = "panicked" =>
                /\ Rec(f).call.panic = "ErrReinitialized"
                /\ \E g \in Inits : Rec(g).outcome = "returned"
          /\ Rec(f).outcome = "returned" =>
                /\ Rec(f).call.ret = shared
                /\ alerters[shared] = NewAlerter(Rec(f).call.conf)
    /\ shared # Nil => \E t \in Threads :
          \/ \E f \in Inits : f[1] = t /\ Rec(f).outcome = "returned"
          \/ call[t].op = "Init" /\ pc[t] = "Unlock" /\ call[t].ret = shared
    /\ \A f \in Finished : Rec(f).sharedAfter # Nil => Rec(f).sharedAfter = shared

C2_Witness ==
    /\ \E f \in Inits : Rec(f).outcome = "returned"
    /\ \E f \in Inits : Rec(f).outcome = "panicked"

\* a package-level report that found no Alerter
FoundNone(c) == IsReport(c) /\ c.viaPkg /\ c.a = Nil

(* C4: a package-level Error or Errorf made while no Alerter is installed   *)
(* submits nothing, logs nothing, touches no hub, leaves shared nil and the *)
(* lock free, and returns normally.                                         *)
C4_UninitializedNoOp ==
    /\ \A f \in Finished : FoundNone(Rec(f).call) =>
          /\ Rec(f).outcome = "returned"
          /\ Rec(f).sharedAfter = Nil
          /\ Rec(f).lockAfter = Nil
          /\ Rec(f).call.h = NoHub
          /\ CountOf(tracker[f[1]], Rec(f).call.n) = 0
          /\ CountOf(logged[f[1]], Rec(f).call.n) = 0
    /\ \A t \in Threads : (pc[t] = "Unlock" /\ FoundNone(call[t])) =>
          /\ shared = Nil
          /\ call[t].panic = ""
          /\ CountOf(tracker[t], call[t].n) = 0
          /\ CountOf(logged[t], call[t].n) = 0

C4_Witness ==
    \E f \in Finished : FoundNone(Rec(f).call) /\ Rec(f).call.op = "Errorf"

\* the positions inside the critical section of Init, Error and Errorf
InCritical(t) == pc[t] \in {"NewComponent", "NewHost", "NewReturn", "ErrReport", "Unlock"}

C6_Safe ==
    /\ \A t \in Threads : InCritical(t) => lock = t
    /\ lock # Nil => InCritical(lock)
    /\ \A f \in Finished : Rec(f).lockAfter # f[1]
    /\ \A t \in Threads : (IsReport(call[t]) /\ pc[t] \in {"ErrReport", "Unlock"}) =>
          \/ FoundNone(call[t])
          \/ /\ call[t].a = shared /\ shared # Nil
             /\ \E f \in Inits :
                   /\ Rec(f).outcome = "returned"
                   /\ call[t].rcv = NewAlerter(Rec(f).call.conf)
                   /\ call[t].rcv.sentry # Nil =>
                         /\ hubs[Global].client = Rec(f).call.conf.Sentry
                         /\ call[t].snap = hubs[Global].scope

(* C6: Init and the package-level Error and Errorf touch the process-wide   *)
(* Alerter only while holding the one mutex, so a package-level call either *)
(* finds no Alerter or dispatches through the installed, completely         *)
(* constructed one; the mutex is released on return and on panic, and no    *)
(* call waits for it forever.                                               *)
C6_GuardedAndNeverStuck ==
    /\ []C6_Safe
    /\ \A t \in Threads : []<>(pc[t] # "Lock")

C6_Witness ==
    \E t, u \in Threads :
        /\ call[t].op = "Init" /\ pc[t] = "NewHost"
        /\ IsReport(call[u]) /\ pc[u] = "Lock"

\* the tags a call writes: its own tags, stringified, and the ref tag
WrittenTags(c) ==
    IF MapLen(c.cxt.Tags) = 0 THEN [k \in {} |-> ""]
    ELSE [k \in DOMAIN c.cxt.Tags.kv \cup (IF c.ref # "" THEN {"ref"} ELSE {}) |->
            IF k \in DOMAIN c.cxt.Tags.kv THEN Sprint(c.cxt.Tags.kv[k]) ELSE c.ref]

Overlay(base, over) ==
    [k \in DOMAIN base \cup DOMAIN over |-> IF k \in DOMAIN over THEN over[k] ELSE base[k]]

(* C5: the event of each Error call carries exactly the tags that call      *)
(* wrote over the tags the shared scope had when the call cloned it, and    *)
(* that call's own request and user; the shared scope itself is never       *)
(* written by an Error call.                                                *)
C5_CallsIsolated ==
    /\ \A t \in Threads : \A i \in DOMAIN tracker[t] :
          LET ev == tracker[t][i]
              c == CallOf(t, ev.n)
          IN /\ ev.tags = Overlay(c.snap.tags, WrittenTags(c))
             /\ ev.request = IF c.cxt.Request # Nil THEN c.cxt.Request ELSE c.snap.request
             /\ ev.user = IF c.cxt.Request # Nil THEN OriginAddr(c.cxt.Request)
                          ELSE c.snap.user
    /\ hubs[Global].scope.request = Nil
    /\ hubs[Global].scope.user = ""
    /\ DOMAIN hubs[Global].scope.tags \subseteq {"component", "host"}

C5_Witness ==
    \E t, u \in Threads :
        /\ t # u
        /\ pc[t] = "ErrReport" /\ pc[u] = "ErrReport"
        /\ call[t].h # NoHub /\ call[u].h # NoHub
        /\ call[t].a = call[u].a
        /\ MapLen(call[t].cxt.Tags) > 0 /\ MapLen(call[u].cxt.Tags) > 0
        /\ call[t].cxt.Tags # call[u].cxt.Tags
        /\ hubs[t].scope.tags # hubs[u].scope.tags

(* C9: an Alerter.Error call that returns has submitted exactly one event   *)
(* if its Alerter has a tracker and none otherwise, and has logged exactly  *)
(* one line, err.Error(), if the Alerter is verbose with a logger and none  *)
(* otherwise; the Alerter's fields stay as New set them.                    *)
C9_OneEventOneLine ==
    /\ \A f \in Finished :
          LET c == Rec(f).call
              t == f[1]
          IN /\ (IsReport(c) /\ Rec(f).outcome = "returned" /\ c.a # Nil) =>
                   /\ CountOf(tracker[t], c.n) = IF c.rcv.sentry # Nil THEN 1 ELSE 0
                   /\ CountOf(logged[t], c.n) =
                          IF c.rcv.verbose /\ c.rcv.log.base # Nil THEN 1 ELSE 0
                   /\ \A i \in DOMAIN logged[t] :
                          logged[t][i].n = c.n => logged[t][i].msg = ErrorText(c.err, 1)
                   /\ alerters[c.a] = c.rcv
             /\ c.op = "New" => alerters[c.ret] = NewAlerter(c.conf)

C9_Witness ==
    \E f \in Finished :
        /\ IsReport(Rec(f).call) /\ Rec(f).outcome = "returned"
        /\ Rec(f).call.rcv.sentry # Nil /\ ~Rec(f).call.rcv.verbose
        /\ CountOf(tracker[f[1]], Rec(f).call.n) = 1
        /\ CountOf(logged[f[1]], Rec(f).call.n) = 0

\* the argument of the last option of a kind among the first i, 0 when none
LastOf(kind, i) ==
    LET at == { j \in 1..i : optsIn[j].kind = kind }
    IN IF at = {} THEN 0 ELSE CHOOSE j \in at : \A k \in at : k <= j

(* C7: the Context is the left-to-right fold of the options over the zero   *)
(* Context: after each option, every field holds the argument of the last   *)
(* option of its kind so far (nil and empty arguments included), or its     *)
(* zero value when there was none.                                          *)
C7_LastOptionWins ==
    LET i == cxtOut.i
        r == LastOf("WithRequest", i)
        g == LastOf("WithTags", i)
        x == LastOf("WithExtra", i)
    IN /\ cxtOut.cxt.Request = IF r = 0 THEN Nil ELSE optsIn[r].req
       /\ cxtOut.cxt.Tags = IF g = 0 THEN NilMap ELSE optsIn[g].m
       /\ cxtOut.cxt.Extra = IF x = 0 THEN NilMap ELSE optsIn[x].m
       /\ i = Len(optsIn) => Compose(optsIn) = cxtOut.cxt

C7_Witness ==
    /\ Len(optsIn) = 3 /\ cxtOut.i = 3
    /\ optsIn[1].kind = "WithTags" /\ optsIn[1].m = MapOf([k \in {"env"} |-> 1])
    /\ optsIn[2].kind = "WithExtra" /\ optsIn[2].m = MapOf([k \in {"job"} |-> 7])
    /\ optsIn[3].kind = "WithTags" /\ optsIn[3].m = MapOf(EmptyKV)

====
